---- MODULE Spec2Model ----
(***************************************************************************)
(* Model of src/src/util.c of CPU Energy Meter: the debug flag, the        *)
(* capability dropper, the privilege dropper and the CPU affinity helpers. *)
(*                                                                         *)
(* The process state the functions act on lives in the kernel: the         *)
(* credentials (real/effective/saved uid and gid, supplementary groups,    *)
(* the permitted and effective capability sets) and the affinity mask.     *)
(* The system calls are modelled by what Linux does for them               *)
(* (kernel/sys.c, kernel/groups.c, security/commoncap.c,                   *)
(* kernel/sched/core.c); each is named after the call and mapped to the    *)
(* line of util.c that issues it.                                          *)
(***************************************************************************)
EXTENDS Integers, Sequences, FiniteSets, TLC

\* Bounds of the model.
MaxId == 2          \* user and group ids are 0..MaxId; 0 is root
NumCpus == 2        \* size of the modelled cpu_set_t: CPU indices 0..NumCpus-1
MaxEnable == 2      \* enable_debug calls counted up to this number

Ids == 0..MaxId
CpuIds == 0..(NumCpus - 1)
CpuArgs == (-1)..NumCpus      \* int cpu arguments, out-of-range ones included

VARIABLES
  debug_enabled,   \* static int debug_enabled (line 21)
  cred,            \* kernel credentials of the process
  affinity,        \* kernel affinity mask of the process
  allowed,         \* CPUs the kernel lets the process run on (cpuset)
  pc,              \* position of the process: "idle", a step of a function, "exited"
  exit_status,     \* status the process terminated with (0 while it runs)
  op,              \* the function called last (running, or returned when idle)
  uid, gid,        \* arguments of drop_root_privileges_by_id
  newgid, oldgid, newuid, olduid,   \* its locals (lines 69-72)
  capabilities,    \* local cap_t of drop_capabilities (working storage)
  params,          \* arguments of the affinity call: cpu, new_context, old_context != NULL
  old_context,     \* the cpu_set_t the caller passed to receive the previous affinity
  ret,             \* value returned by the call (0 for a void function)
  calls,           \* history: system calls issued by the current call, in order
  entry,           \* history: credentials and affinity when the call started
  enable_count     \* history: number of enable_debug calls so far (capped)

vars == <<debug_enabled, cred, affinity, allowed, pc, exit_status, op, uid, gid,
          newgid, oldgid, newuid, olduid, capabilities, params, old_context,
          ret, calls, entry, enable_count>>

dropLocals == <<uid, gid, newgid, oldgid, newuid, olduid>>

Call(name, arg, ok) == [call |-> name, arg |-> arg, ok |-> ok]

NoParams == [cpu |-> 0, new_context |-> {}, has_old |-> FALSE]

NoCapState == [alloc |-> FALSE, eff |-> FALSE, perm |-> FALSE]

(***************************************************************************)
(* Kernel: credentials.                                                    *)
(***************************************************************************)

\* ns_capable(CAP_SETUID) / ns_capable(CAP_SETGID): the effective set decides.
capable(c) == c.capEff

\* cap_emulate_setxuid: what a uid change does to the capability sets.
cap_emulate_setxuid(old, new) ==
  LET rootBefore == old.ruid = 0 \/ old.euid = 0 \/ old.suid = 0
      noRootAfter == new.ruid # 0 /\ new.euid # 0 /\ new.suid # 0
      perm == IF rootBefore /\ noRootAfter THEN FALSE ELSE new.capPerm
      eff == IF rootBefore /\ noRootAfter THEN FALSE
             ELSE IF old.euid = 0 /\ new.euid # 0 THEN FALSE
             ELSE IF old.euid # 0 /\ new.euid = 0 THEN perm
             ELSE new.capEff
  IN [new EXCEPT !.capPerm = perm, !.capEff = eff]

getuid == cred.ruid
geteuid == cred.euid
getgid == cred.rgid
getegid == cred.egid

\* setgroups(1, &g): needs CAP_SETGID; replaces the supplementary group list.
setgroups_permitted(c) == capable(c)
setgroups(c, g) == [c EXCEPT !.groups = {g}]

\* setregid(g, g): real and effective gid; the saved gid follows the effective.
setregid_permitted(c, g) == capable(c) \/ g = c.rgid \/ g = c.egid
setregid(c, g) == [c EXCEPT !.rgid = g, !.egid = g, !.sgid = g]

\* setreuid(u, u): real and effective uid; the saved uid follows the effective.
setreuid_permitted(c, u) == capable(c) \/ u = c.ruid \/ u = c.euid
setreuid(c, u) ==
  cap_emulate_setxuid(c, [c EXCEPT !.ruid = u, !.euid = u, !.suid = u])

\* setegid(g): the effective gid alone.  The two restore attempts of the
\* verification fail exactly when the credentials do not permit them.
setegid_permitted(c, g) == capable(c) \/ g = c.rgid \/ g = c.egid \/ g = c.sgid
setegid(c, g) == [c EXCEPT !.egid = g]

\* seteuid(u): the effective uid alone.
seteuid_permitted(c, u) == capable(c) \/ u = c.ruid \/ u = c.euid \/ u = c.suid
seteuid(c, u) == cap_emulate_setxuid(c, [c EXCEPT !.euid = u])

(***************************************************************************)
(* Kernel: affinity.                                                       *)
(***************************************************************************)

\* sched_setaffinity(0, ., mask): the mask is cut to the CPUs the process may
\* use; EINVAL when nothing is left.
sched_setaffinity_ok(mask) == mask \cap allowed # {}
sched_setaffinity(mask) == mask \cap allowed

CPU_ZERO == {}
CPU_SET(cpu, set) == IF cpu \in CpuIds THEN set \cup {cpu} ELSE set
CPU_ISSET(cpu, set) == cpu \in CpuIds /\ cpu \in set

(***************************************************************************)
(* Process termination: err(1, ...) and errx(1, ...).                      *)
(***************************************************************************)
err(eval) == pc' = "exited" /\ exit_status' = eval
errx(eval) == pc' = "exited" /\ exit_status' = eval

(***************************************************************************)
(* Initial states.                                                         *)
(***************************************************************************)
\* Every combination of real, effective and saved ids; a group list that holds
\* the root group alone or every group; with or without CAP_SETUID/CAP_SETGID.
CredSpace ==
  [ruid : Ids, euid : Ids, suid : Ids, rgid : Ids, egid : Ids, sgid : Ids,
   groups : {{0}, Ids}, capEff : BOOLEAN, capPerm : BOOLEAN]

\* After execve the effective capability set is the permitted one.
CredOk(c) == c.capEff = c.capPerm

MkCred(ru, eu, rg, eg, cap) ==
  [ruid |-> ru, euid |-> eu, suid |-> eu, rgid |-> rg, egid |-> eg, sgid |-> eg,
   groups |-> {rg}, capEff |-> cap, capPerm |-> cap]

\* root; a setuid-root binary run by user 1; a setgid-root binary; a plain user
StartCreds ==
  {MkCred(0, 0, 0, 0, TRUE), MkCred(1, 0, 1, 1, TRUE),
   MkCred(1, 1, 1, 0, FALSE), MkCred(1, 1, 1, 1, FALSE)}

InitRest ==
  /\ debug_enabled = 0
  /\ pc = "idle"
  /\ exit_status = 0
  /\ op = "none"
  /\ uid = 0 /\ gid = 0
  /\ newgid = 0 /\ oldgid = 0 /\ newuid = 0 /\ olduid = 0
  /\ capabilities = NoCapState
  /\ params = NoParams
  /\ old_context = {}
  /\ ret = 0
  /\ calls = <<>>
  /\ enable_count = 0

\* Every operation, from the usual ways the tool is started.
Init ==
  /\ cred \in StartCreds
  /\ allowed = CpuIds
  /\ affinity = CpuIds
  /\ entry = [cred |-> cred, affinity |-> affinity]
  /\ InitRest

\* The affinity operations, from every cpuset and every affinity within it.
InitAffinity ==
  /\ cred = MkCred(1, 1, 1, 1, FALSE)
  /\ allowed \in (SUBSET CpuIds) \ {{}}
  /\ affinity \in (SUBSET allowed) \ {{}}
  /\ entry = [cred |-> cred, affinity |-> affinity]
  /\ InitRest

\* The privilege operations, from every credential state.
InitPriv ==
  /\ cred \in {c \in CredSpace : CredOk(c)}
  /\ allowed = CpuIds
  /\ affinity = CpuIds
  /\ entry = [cred |-> cred, affinity |-> affinity]
  /\ InitRest

\* A call starts when the process is idle; the frame of the previous call is gone.
Enter(f) ==
  /\ pc = "idle"
  /\ op' = f
  /\ entry' = [cred |-> cred, affinity |-> affinity]

NoDropLocals ==
  /\ uid' = 0 /\ gid' = 0
  /\ newgid' = 0 /\ oldgid' = 0 /\ newuid' = 0 /\ olduid' = 0

NoAffinityResult ==
  /\ params' = NoParams
  /\ old_context' = {}
  /\ ret' = 0

(***************************************************************************)
(* Debug flag (lines 21-29).                                               *)
(***************************************************************************)
\* A variant of enable_debug that flips the flag instead of setting it.
enable_debug_Toggle ==
  /\ Enter("enable_debug")
  /\ debug_enabled' = 1 - debug_enabled
  /\ enable_count' = IF enable_count < MaxEnable THEN enable_count + 1 ELSE enable_count
  /\ calls' = <<>>
  /\ NoDropLocals
  /\ NoAffinityResult
  /\ UNCHANGED <<cred, affinity, allowed, pc, exit_status, capabilities>>

enable_debug ==
  /\ Enter("enable_debug")
  /\ debug_enabled' = 1
  /\ enable_count' = IF enable_count < MaxEnable THEN enable_count + 1 ELSE enable_count
  /\ calls' = <<>>
  /\ NoDropLocals
  /\ NoAffinityResult
  /\ UNCHANGED <<cred, affinity, allowed, pc, exit_status, capabilities>>

is_debug_enabled ==
  /\ Enter("is_debug_enabled")
  /\ ret' = debug_enabled
  /\ params' = NoParams
  /\ old_context' = {}
  /\ calls' = <<>>
  /\ NoDropLocals
  /\ UNCHANGED <<debug_enabled, cred, affinity, allowed, pc, exit_status,
                 capabilities, enable_count>>

(***************************************************************************)
(* drop_capabilities (lines 40-60).  Each libcap call either succeeds or   *)
(* reports failure; which one is the environment's choice.                 *)
(***************************************************************************)
capFrame == <<debug_enabled, affinity, allowed, op, dropLocals, params,
              old_context, ret, entry, enable_count>>

\* line 40: the call itself
drop_capabilities ==
  /\ Enter("drop_capabilities")
  /\ pc' = "cap_get_proc"
  /\ calls' = <<>>
  /\ NoDropLocals
  /\ NoAffinityResult
  /\ UNCHANGED <<debug_enabled, cred, affinity, allowed, exit_status,
                 capabilities, enable_count>>

\* lines 43-46: cap_get_proc copies the process's capability state
CapGetProc ==
  /\ pc = "cap_get_proc"
  /\ \E ok \in BOOLEAN :
       /\ calls' = Append(calls, Call("cap_get_proc", 0, ok))
       /\ IF ok
          THEN /\ capabilities' = [alloc |-> TRUE, eff |-> cred.capEff,
                                   perm |-> cred.capPerm]
               /\ pc' = "cap_clear"
               /\ UNCHANGED exit_status
          ELSE /\ err(1)
               /\ UNCHANGED capabilities
  /\ UNCHANGED <<cred, capFrame>>

\* lines 49-51: cap_clear empties the working copy
CapClear ==
  /\ pc = "cap_clear"
  /\ \E ok \in BOOLEAN :
       /\ calls' = Append(calls, Call("cap_clear", 0, ok))
       /\ IF ok
          THEN /\ capabilities' = [capabilities EXCEPT !.eff = FALSE, !.perm = FALSE]
               /\ pc' = "cap_set_proc"
               /\ UNCHANGED exit_status
          ELSE /\ err(1)
               /\ UNCHANGED capabilities
  /\ UNCHANGED <<cred, capFrame>>

\* A variant of CapSetProc that does not look at the result of cap_set_proc.
CapSetProc_Unchecked ==
  /\ pc = "cap_set_proc"
  /\ \E ok \in BOOLEAN :
       /\ calls' = Append(calls, Call("cap_set_proc", 0, ok))
       /\ cred' = IF ok THEN [cred EXCEPT !.capEff = capabilities.eff,
                                          !.capPerm = capabilities.perm]
                  ELSE cred
       /\ pc' = "cap_free"
       /\ UNCHANGED exit_status
  /\ UNCHANGED <<capabilities, capFrame>>

\* lines 52-54: cap_set_proc commits the working copy to the process
CapSetProc ==
  /\ pc = "cap_set_proc"
  /\ \E ok \in BOOLEAN :
       /\ calls' = Append(calls, Call("cap_set_proc", 0, ok))
       /\ IF ok
          THEN /\ cred' = [cred EXCEPT !.capEff = capabilities.eff,
                                       !.capPerm = capabilities.perm]
               /\ pc' = "cap_free"
               /\ UNCHANGED exit_status
          ELSE /\ err(1)
               /\ UNCHANGED cred
  /\ UNCHANGED <<capabilities, capFrame>>

\* lines 57-60: cap_free releases the working copy; then the function returns
CapFree ==
  /\ pc = "cap_free"
  /\ \E ok \in BOOLEAN :
       /\ calls' = Append(calls, Call("cap_free", 0, ok))
       /\ IF ok
          THEN /\ capabilities' = NoCapState
               /\ pc' = "idle"
               /\ UNCHANGED exit_status
          ELSE /\ err(1)
               /\ UNCHANGED capabilities
  /\ UNCHANGED <<cred, capFrame>>

(***************************************************************************)
(* drop_root_privileges_by_id (lines 68-106).                              *)
(***************************************************************************)
dropFrame == <<debug_enabled, affinity, allowed, op, dropLocals, capabilities,
               params, old_context, ret, entry, enable_count>>

\* A variant of NotRoot with one comparison turned around.
NotRoot_Typo(oluid, olgid) == oluid # 0 /\ olgid = 0

\* line 74: currently not root, nothing can be done
NotRoot(oluid, olgid) == oluid # 0 /\ olgid # 0

\* lines 68-77: the locals and the early return
drop_root_privileges_by_id(u, g) ==
  /\ Enter("drop_root_privileges_by_id")
  /\ uid' = u
  /\ gid' = g
  /\ newgid' = IF g > 0 THEN g ELSE getgid
  /\ oldgid' = getegid
  /\ newuid' = IF u > 0 THEN u ELSE getuid
  /\ olduid' = geteuid
  /\ calls' = <<>>
  /\ pc' = IF NotRoot(geteuid, getegid) THEN "idle" ELSE "setgroups"
  /\ NoAffinityResult
  /\ UNCHANGED <<debug_enabled, cred, affinity, allowed, exit_status,
                 capabilities, enable_count>>

\* A variant of DropSetgroups that calls setgroups whatever the old uid is.
DropSetgroups_Always ==
  /\ pc = "setgroups"
  /\ \E transient \in BOOLEAN :
       LET ok == setgroups_permitted(cred) /\ ~transient
       IN /\ cred' = IF ok THEN setgroups(cred, newgid) ELSE cred
          /\ calls' = Append(calls, Call("setgroups", newgid, ok))
  /\ pc' = "setregid"
  /\ UNCHANGED <<exit_status, dropFrame>>

\* lines 83-85: setgroups(1, &newgid) when the effective uid is 0; its result
\* is not looked at
DropSetgroups ==
  /\ pc = "setgroups"
  /\ IF olduid = 0
     THEN \E transient \in BOOLEAN :
            LET ok == setgroups_permitted(cred) /\ ~transient
            IN /\ cred' = IF ok THEN setgroups(cred, newgid) ELSE cred
               /\ calls' = Append(calls, Call("setgroups", newgid, ok))
     ELSE UNCHANGED <<cred, calls>>
  /\ pc' = "setregid"
  /\ UNCHANGED <<exit_status, dropFrame>>

\* lines 87-91: setregid(newgid, newgid) when the target differs
DropSetregid ==
  /\ pc = "setregid"
  /\ IF newgid # oldgid
     THEN \E transient \in BOOLEAN :
            LET ok == setregid_permitted(cred, newgid) /\ ~transient
            IN /\ cred' = IF ok THEN setregid(cred, newgid) ELSE cred
               /\ calls' = Append(calls, Call("setregid", newgid, ok))
               /\ IF ok
                  THEN pc' = "setreuid" /\ UNCHANGED exit_status
                  ELSE err(1)
     ELSE /\ pc' = "setreuid"
          /\ UNCHANGED <<cred, calls, exit_status>>
  /\ UNCHANGED dropFrame

\* A variant of DropSetreuid that changes the effective uid alone.
DropSetreuid_EffectiveOnly ==
  /\ pc = "setreuid"
  /\ IF newuid # olduid
     THEN \E transient \in BOOLEAN :
            LET ok == seteuid_permitted(cred, newuid) /\ ~transient
            IN /\ cred' = IF ok THEN seteuid(cred, newuid) ELSE cred
               /\ calls' = Append(calls, Call("setreuid", newuid, ok))
               /\ IF ok
                  THEN pc' = "verify_gid" /\ UNCHANGED exit_status
                  ELSE err(1)
     ELSE /\ pc' = "verify_gid"
          /\ UNCHANGED <<cred, calls, exit_status>>
  /\ UNCHANGED dropFrame

\* lines 93-97: setreuid(newuid, newuid) when the target differs
DropSetreuid ==
  /\ pc = "setreuid"
  /\ IF newuid # olduid
     THEN \E transient \in BOOLEAN :
            LET ok == setreuid_permitted(cred, newuid) /\ ~transient
            IN /\ cred' = IF ok THEN setreuid(cred, newuid) ELSE cred
               /\ calls' = Append(calls, Call("setreuid", newuid, ok))
               /\ IF ok
                  THEN pc' = "verify_gid" /\ UNCHANGED exit_status
                  ELSE err(1)
     ELSE /\ pc' = "verify_gid"
          /\ UNCHANGED <<cred, calls, exit_status>>
  /\ UNCHANGED dropFrame

\* A variant of DropVerifyGid that compares the gid in force but does not try
\* to take the old one back.
DropVerifyGid_NoRestoreAttempt ==
  /\ pc = "verify_gid"
  /\ IF newgid # oldgid /\ cred.egid # newgid
     THEN errx(1)
     ELSE pc' = "verify_uid" /\ UNCHANGED exit_status
  /\ UNCHANGED <<cred, calls, dropFrame>>

\* lines 100-102: the old gid must not come back and the new one must be in force
DropVerifyGid ==
  /\ pc = "verify_gid"
  /\ IF newgid # oldgid
     THEN LET ok == setegid_permitted(cred, oldgid)
              c2 == IF ok THEN setegid(cred, oldgid) ELSE cred
          IN /\ cred' = c2
             /\ calls' = Append(calls, Call("setegid", oldgid, ok))
             /\ IF ok \/ c2.egid # newgid
                THEN errx(1)
                ELSE pc' = "verify_uid" /\ UNCHANGED exit_status
     ELSE /\ pc' = "verify_uid"
          /\ UNCHANGED <<cred, calls, exit_status>>
  /\ UNCHANGED dropFrame

\* lines 103-106: the same for the uid; then the function returns
DropVerifyUid ==
  /\ pc = "verify_uid"
  /\ IF newuid # olduid
     THEN LET ok == seteuid_permitted(cred, olduid)
              c2 == IF ok THEN seteuid(cred, olduid) ELSE cred
          IN /\ cred' = c2
             /\ calls' = Append(calls, Call("seteuid", olduid, ok))
             /\ IF ok \/ c2.euid # newuid
                THEN errx(1)
                ELSE pc' = "idle" /\ UNCHANGED exit_status
     ELSE /\ pc' = "idle"
          /\ UNCHANGED <<cred, calls, exit_status>>
  /\ UNCHANGED dropFrame

NextPriv ==
  \/ \E u \in Ids, g \in Ids : drop_root_privileges_by_id(u, g)
  \/ DropSetgroups
  \/ DropSetregid
  \/ DropSetreuid
  \/ DropVerifyGid
  \/ DropVerifyUid
  \/ drop_capabilities
  \/ CapGetProc
  \/ CapClear
  \/ CapSetProc
  \/ CapFree

SpecPriv == InitPriv /\ [][NextPriv]_vars

(***************************************************************************)
(* CPU affinity (lines 108-147).  has_old says whether old_context is a    *)
(* location (not NULL), a cpu_set_t that is empty before the call; get_ok  *)
(* is the environment's answer to sched_getaffinity.  The result names the *)
(* value returned, the affinity and the caller's buffer afterwards, and    *)
(* the system calls issued.                                                *)
(***************************************************************************)
\* A variant of bind_context that sets the new affinity before it reads the
\* old one.
bind_context_SetFirst(new_context, has_old, get_ok) ==
  IF ~sched_setaffinity_ok(new_context)
  THEN [ret |-> -1, affinity |-> affinity, old_context |-> {},
        calls |-> <<Call("sched_setaffinity", new_context, FALSE)>>]
  ELSE LET set == <<Call("sched_setaffinity", new_context, TRUE)>>
           now == sched_setaffinity(new_context)
       IN IF ~has_old
          THEN [ret |-> 0, affinity |-> now, old_context |-> {}, calls |-> set]
          ELSE [ret |-> IF get_ok THEN 0 ELSE -1, affinity |-> now,
                old_context |-> IF get_ok THEN now ELSE {},
                calls |-> Append(set, Call("sched_getaffinity", now, get_ok))]

\* A variant of bind_context that goes on to set the affinity after a failed read.
bind_context_IgnoreReadFailure(new_context, has_old, get_ok) ==
  LET read == IF has_old
              THEN <<Call("sched_getaffinity", affinity, get_ok)>>
              ELSE <<>>
      prev == IF has_old /\ get_ok THEN affinity ELSE {}
  IN IF ~sched_setaffinity_ok(new_context)
     THEN [ret |-> -1, affinity |-> affinity, old_context |-> prev,
           calls |-> Append(read, Call("sched_setaffinity", new_context, FALSE))]
     ELSE [ret |-> 0, affinity |-> sched_setaffinity(new_context),
           old_context |-> prev,
           calls |-> Append(read, Call("sched_setaffinity", new_context, TRUE))]

\* lines 116-130
bind_context(new_context, has_old, get_ok) ==
  LET read == IF has_old
              THEN <<Call("sched_getaffinity", affinity, get_ok)>>
              ELSE <<>>
      prev == IF has_old /\ get_ok THEN affinity ELSE {}
  IN IF has_old /\ ~get_ok
     THEN [ret |-> -1, affinity |-> affinity, old_context |-> prev, calls |-> read]
     ELSE IF ~sched_setaffinity_ok(new_context)
     THEN [ret |-> -1, affinity |-> affinity, old_context |-> prev,
           calls |-> Append(read, Call("sched_setaffinity", new_context, FALSE))]
     ELSE [ret |-> 0, affinity |-> sched_setaffinity(new_context),
           old_context |-> prev,
           calls |-> Append(read, Call("sched_setaffinity", new_context, TRUE))]

\* lines 108-114
bind_cpu(cpu, has_old, get_ok) ==
  LET cpu_context == CPU_SET(cpu, CPU_ZERO)
  IN bind_context(cpu_context, has_old, get_ok)

\* A variant of is_cpu_offline with the membership test turned around.
is_cpu_offline_Inverted(cpu, get_ok) ==
  LET cpu_context == IF get_ok THEN affinity ELSE CPU_ZERO
  IN IF ~get_ok THEN -1
     ELSE IF CPU_ISSET(cpu, cpu_context) THEN 1
     ELSE 0

\* lines 132-147
is_cpu_offline(cpu, get_ok) ==
  LET cpu_context == IF get_ok THEN affinity ELSE CPU_ZERO
  IN IF ~get_ok THEN -1
     ELSE IF ~CPU_ISSET(cpu, cpu_context) THEN 1
     ELSE 0

affFrame == <<debug_enabled, cred, allowed, pc, exit_status, capabilities,
              enable_count>>

Apply(r) ==
  /\ ret' = r.ret
  /\ affinity' = r.affinity
  /\ old_context' = r.old_context
  /\ calls' = r.calls

BindCpu ==
  /\ Enter("bind_cpu")
  /\ \E cpu \in CpuArgs, has_old \in BOOLEAN, get_ok \in BOOLEAN :
       /\ params' = [cpu |-> cpu, new_context |-> CPU_SET(cpu, CPU_ZERO),
                      has_old |-> has_old]
       /\ Apply(bind_cpu(cpu, has_old, get_ok))
  /\ NoDropLocals
  /\ UNCHANGED affFrame

BindContext ==
  /\ Enter("bind_context")
  /\ \E new_context \in SUBSET CpuIds, has_old \in BOOLEAN, get_ok \in BOOLEAN :
       /\ params' = [cpu |-> 0, new_context |-> new_context, has_old |-> has_old]
       /\ Apply(bind_context(new_context, has_old, get_ok))
  /\ NoDropLocals
  /\ UNCHANGED affFrame

IsCpuOffline ==
  /\ Enter("is_cpu_offline")
  /\ \E cpu \in CpuArgs, get_ok \in BOOLEAN :
       /\ params' = [cpu |-> cpu, new_context |-> {}, has_old |-> FALSE]
       /\ ret' = is_cpu_offline(cpu, get_ok)
       /\ calls' = <<Call("sched_getaffinity", affinity, get_ok)>>
  /\ old_context' = {}
  /\ NoDropLocals
  /\ UNCHANGED <<affinity, affFrame>>

NextAffinity ==
  \/ BindCpu
  \/ BindContext
  \/ IsCpuOffline

SpecAffinity == InitAffinity /\ [][NextAffinity]_vars

Next ==
  \/ enable_debug
  \/ is_debug_enabled
  \/ NextPriv
  \/ NextAffinity

Spec == Init /\ [][Next]_vars

(***************************************************************************)
(* Properties.                                                             *)
(***************************************************************************)
DROP == "drop_root_privileges_by_id"

\* f was called and has returned to its caller
Returned(f) == pc = "idle" /\ op = f

\* effective uid 0 or effective gid 0
Elevated(c) == c.euid = 0 \/ c.egid = 0

Issued(name) == \E i \in DOMAIN calls : calls[i].call = name

\* the attempt to take the old effective id back was made and failed
UidVerified == \E i \in DOMAIN calls : calls[i] = Call("seteuid", entry.cred.euid, FALSE)
GidVerified == \E i \in DOMAIN calls : calls[i] = Call("setegid", entry.cred.egid, FALSE)

\* a failed call ends the process at once, with status 1
FailureIsFatal(names) ==
  \A i \in DOMAIN calls :
    (calls[i].call \in names /\ ~calls[i].ok) =>
      (pc = "exited" /\ exit_status = 1 /\ i = Len(calls))

\* C1 as stated: a call to drop_root_privileges_by_id that starts with
\* effective uid 0 or effective gid 0 and returns normally has left neither
\* effective id at 0, and each id that was 0 was verified.
C1_FullDropOrExit ==
  (Returned(DROP) /\ Elevated(entry.cred)) =>
    /\ cred.euid # 0 /\ cred.egid # 0
    /\ entry.cred.euid = 0 => UidVerified
    /\ entry.cred.egid = 0 => GidVerified

\* C1 as amended: when both resolved targets (the argument, or the real id for
\* an argument of 0) are non-zero, a call that starts elevated and returns
\* normally has set the effective uid and gid to the targets, and each id whose
\* effective value was 0 has real = effective = target and was verified: the
\* attempt to take 0 back failed and would fail again.
C1_DropToNonRootTargets ==
  (Returned(DROP) /\ Elevated(entry.cred) /\ newuid # 0 /\ newgid # 0) =>
    /\ cred.euid = newuid /\ cred.egid = newgid
    /\ entry.cred.euid = 0 =>
         (cred.ruid = newuid /\ UidVerified /\ ~seteuid_permitted(cred, 0))
    /\ entry.cred.egid = 0 =>
         (cred.rgid = newgid /\ GidVerified /\ ~setegid_permitted(cred, 0))

\* C1 witness: a call that started with both effective ids 0 returned
C1_Witness ==
  /\ Returned(DROP)
  /\ entry.cred.euid = 0 /\ entry.cred.egid = 0
  /\ newuid # 0 /\ newgid # 0

\* C2 as stated: after a normal return of an elevated call with uid > 0 and
\* gid > 0, real and effective uid equal uid, real and effective gid equal gid,
\* and setting the effective uid or gid back to its value before the call fails.
C2_TargetsAndNoWayBack ==
  (Returned(DROP) /\ Elevated(entry.cred) /\ uid > 0 /\ gid > 0) =>
    /\ cred.ruid = uid /\ cred.euid = uid
    /\ cred.rgid = gid /\ cred.egid = gid
    /\ ~seteuid_permitted(cred, entry.cred.euid)
    /\ ~setegid_permitted(cred, entry.cred.egid)

\* C2 as amended: after such a return the effective uid equals uid and the
\* effective gid equals gid; for each of the two whose target differed from the
\* effective id before the call, the real id equals the target too and setting
\* the effective id back to its value before the call fails.
C2_TargetsWhereChanged ==
  (Returned(DROP) /\ Elevated(entry.cred) /\ uid > 0 /\ gid > 0) =>
    /\ cred.euid = uid /\ cred.egid = gid
    /\ uid # entry.cred.euid =>
         (cred.ruid = uid /\ ~seteuid_permitted(cred, entry.cred.euid))
    /\ gid # entry.cred.egid =>
         (cred.rgid = gid /\ ~setegid_permitted(cred, entry.cred.egid))

\* C2 witness: root dropped to a user and a group given as arguments
C2_Witness ==
  /\ Returned(DROP)
  /\ uid > 0 /\ gid > 0
  /\ entry.cred.euid = 0 /\ entry.cred.egid = 0
  /\ cred.ruid = uid /\ cred.rgid = gid

\* C3: a call that starts with effective uid and gid both non-zero returns
\* normally, whatever its arguments, without any identity-changing call: the
\* credentials (ids and group list) are those at entry and the process runs on.
C3_NotRootIsNoOp ==
  (op = DROP /\ ~Elevated(entry.cred)) =>
    (pc = "idle" /\ calls = <<>> /\ cred = entry.cred /\ exit_status = 0)

\* C3 witness: the call (0, 0) returned in a process that was not elevated
C3_Witness ==
  /\ Returned(DROP)
  /\ ~Elevated(entry.cred)
  /\ uid = 0 /\ gid = 0

\* C4 as stated: when setgroups, setregid or setreuid fails inside
\* drop_root_privileges_by_id, the process terminates at once with status 1:
\* no later step runs and the function does not return.
C4_IdentityCallFailureIsFatal ==
  op = DROP => FailureIsFatal({"setgroups", "setregid", "setreuid"})

\* C5: drop_capabilities returns only with the capability sets of the process
\* empty and all four calls successful; a failed call terminates the process
\* at once with status 1 and no later call is made.
C5_CapabilitiesEmptyOrExit ==
  op = "drop_capabilities" =>
    /\ pc = "idle" =>
         /\ ~cred.capEff /\ ~cred.capPerm
         /\ Len(calls) = 4
         /\ \A i \in DOMAIN calls : calls[i].ok
    /\ FailureIsFatal({"cap_get_proc", "cap_clear", "cap_set_proc", "cap_free"})

\* C5 witness: drop_capabilities returned in a process that held capabilities
C5_Witness ==
  /\ Returned("drop_capabilities")
  /\ entry.cred.capEff

\* C6: after bind_cpu(cpu, &prev) returns 0 the affinity of the process is
\* exactly {cpu} and prev is the affinity the process had before the call.
C6_BindCpuBindsExactly ==
  (Returned("bind_cpu") /\ ret = 0 /\ params.has_old) =>
    (affinity = {params.cpu} /\ old_context = entry.affinity)

\* C6 witness: bind_cpu narrowed a wider affinity to one CPU
C6_Witness ==
  /\ Returned("bind_cpu")
  /\ ret = 0 /\ params.has_old
  /\ Cardinality(entry.affinity) > 1

\* C7: bind_context never terminates the process; it returns 0 exactly when its
\* sched_setaffinity(new_context) call succeeded, and -1 with the affinity
\* unchanged otherwise; the affinity is read only when old_context is given,
\* before the set, and the set is not attempted after a failed read.
C7_BindContextRecoverable ==
  op = "bind_context" =>
    /\ pc = "idle" /\ exit_status = 0
    /\ ret \in {0, -1}
    /\ ret = 0 <=> (calls # <<>> /\
                    calls[Len(calls)] = Call("sched_setaffinity", params.new_context, TRUE))
    /\ ret = 0 => affinity = params.new_context \cap allowed
    /\ ret = -1 => (affinity = entry.affinity /\ ~calls[Len(calls)].ok)
    /\ Issued("sched_getaffinity") <=> params.has_old
    /\ \A i \in DOMAIN calls :
         /\ calls[i].call = "sched_getaffinity" => i = 1
         /\ calls[i].call = "sched_setaffinity" =>
              (i = Len(calls) /\ \A j \in 1..(i - 1) : calls[j].ok)

\* C7 witness: the read of the affinity failed and bind_context returned -1
C7_Witness ==
  /\ Returned("bind_context")
  /\ ret = -1 /\ params.has_old
  /\ calls = <<Call("sched_getaffinity", entry.affinity, FALSE)>>

\* C8: is_cpu_offline(cpu) returns 0 when cpu is in the affinity of the
\* process, 1 when it is not, -1 when the affinity could not be read; the
\* affinity is unchanged in all three cases.
C8_IsCpuOffline ==
  Returned("is_cpu_offline") =>
    /\ affinity = entry.affinity
    /\ ret = (IF ~calls[1].ok THEN -1
              ELSE IF params.cpu \in affinity THEN 0 ELSE 1)

\* C8 witness: a CPU outside the affinity was reported offline
C8_Witness ==
  /\ Returned("is_cpu_offline")
  /\ ret = 1
  /\ params.cpu \in allowed

\* C9: the debug flag is set exactly when enable_debug has been called at least
\* once, whatever else was called, and is_debug_enabled returns it.
C9_DebugFlag ==
  /\ debug_enabled = (IF enable_count > 0 THEN 1 ELSE 0)
  /\ op = "is_debug_enabled" => (ret # 0 <=> enable_count > 0)

\* C9 witness: is_debug_enabled returned true after two enable_debug calls
C9_Witness ==
  /\ op = "is_debug_enabled"
  /\ ret = 1
  /\ enable_count >= 2

\* place of a system call in the order of drop_root_privileges_by_id
Rank(name) ==
  CASE name = "setgroups" -> 1
    [] name = "setregid" -> 2
    [] name = "setreuid" -> 3
    [] name = "setegid" -> 4
    [] name = "seteuid" -> 5
    [] OTHER -> 0

====
